---- MODULE Spec2Model ----
(***************************************************************************)
(* Model of aleph/model/export.py: the Export record, its publication to   *)
(* the archive (content store), soft deletion with the live-referrer check *)
(* and the lookup queries.                                                 *)
(*                                                                         *)
(* Every operation of the class is one atomic action.  The record store is *)
(* the sequence `exports` (the id of a record is its index); the archive   *)
(* is the set `store` of keys <<namespace, content_hash>>; the local       *)
(* filesystem of the staging directory is `fs`.  `last` records what the   *)
(* caller of the most recent operation observed: the exception raised, the *)
(* archive call made and the value returned.  `workers` holds the position *)
(* of the processes that are inside an operation: the delete_publication   *)
(* calls between their referrer check and their archive call, and the      *)
(* expiry sweep with the rows it still has to handle.                      *)
(***************************************************************************)
EXTENDS Integers, Sequences, FiniteSets, TLC

VARIABLES exports, store, fs, now, last, workers

vars == <<exports, store, fs, now, last, workers>>

----------------------------------------------------------------------------
(* Bounds *)

MaxExports == 2
MaxNow == 30

Roles == {1, 2}
Contents == {"a", "b"}
StagePaths == {"p1", "p2"}
TickSteps == {15}
\* what callers pass to set_status: the three statuses and an unknown one
StatusArgs == {"pending", "successful", "failed", "bogus"}

----------------------------------------------------------------------------
(* Program constants *)

STATUS_PENDING == "pending"
STATUS_SUCCESSFUL == "successful"
STATUS_FAILED == "failed"
EXPORT_STATUS == {STATUS_PENDING, STATUS_SUCCESSFUL, STATUS_FAILED}
DEFAULT_STATUS == STATUS_PENDING
\* timedelta(days=30); time is counted in days
DEFAULT_EXPIRATION == 30

\* None, for the string-valued and the time-valued columns and arguments
Null == "null"
NoTime == -1
NoRole == 0
\* the transient attribute _file_path was never assigned on this object
Unset == "unset"
NoFile == "nofile"

----------------------------------------------------------------------------
(* Collaborators: servicelayer checksum / make_key, pathlib *)

\* checksum(file_path): the digest of the file's bytes, as a string
checksum(c) == IF c = "a" THEN "Ha" ELSE "Hb"

Hashes == {checksum(c) : c \in Contents}

\* files of the staging directory, by name; publish() renames a staged file
\* to its content hash, so the hashes are file names too
Paths == StagePaths \cup Hashes

\* as namespace, without the creator: one namespace for all roles
namespace_shared(x) == <<"role", NoRole>>

\* make_key("role", creator_id)
namespace(x) == <<"role", x.creator_id>>

\* a pathlib.Path object is always truthy
Truthy(p) == p \in Paths

\* Path.rename(target) on POSIX: replaces the target; the source must exist
rename(f, src, dst) ==
    IF src = dst THEN f ELSE [f EXCEPT ![dst] = f[src], ![src] = NoFile]

NoCall == [kind |-> "none", ns |-> <<"role", 0>>, hash |-> Null]
StoreCall(k, x) == [kind |-> k, ns |-> namespace(x), hash |-> x.content_hash]

\* what the caller of an operation sees: the exception raised ("none" when it
\* returns), the archive call made, and for a query its arguments and result
Observed(op, id, err, call, ret) ==
    [op |-> op, id |-> id, err |-> err, call |-> call, arg |-> <<>>, ret |-> ret]

Returned(op, arg, ret) ==
    [op |-> op, id |-> 0, err |-> "none", call |-> NoCall, arg |-> arg, ret |-> ret]

Ids == 1..Len(exports)

----------------------------------------------------------------------------
(* Export.set_filepath, on a record value *)

\* as set_filepath, but the checksum is never stored
set_filepath_no_hash(x, p) ==
    [x EXCEPT !.file_path = p, !.staged = TRUE]

set_filepath(x, p) ==
    [x EXCEPT !.file_path = p, !.content_hash = checksum(fs[p]), !.staged = TRUE]

\* as set_status, without the membership test
set_status_unchecked(x, status) ==
    [x EXCEPT !.export_status = status]

\* as set_status, but a status change brings a deleted export back
set_status_revive(x, status) ==
    IF status \in EXPORT_STATUS
    THEN [x EXCEPT !.export_status = status, !.deleted = FALSE] ELSE x

\* Export.set_status, on a record value
set_status(x, status) ==
    IF status \in EXPORT_STATUS THEN [x EXCEPT !.export_status = status] ELSE x

\* as _should_delete_publication, counting only the creator's own exports
should_delete_publication_same_creator(id) ==
    ~ \E o \in Ids :
        /\ exports[o].content_hash = exports[id].content_hash
        /\ exports[o].creator_id = exports[id].creator_id
        /\ exports[o].deleted # TRUE
        /\ o # id

\* as _should_delete_publication, without the query: always delete
should_delete_publication_unconditional(id) == TRUE

\* as _should_delete_publication, with the deleted filter inverted
should_delete_publication_inverted(id) ==
    ~ \E o \in Ids :
        /\ exports[o].content_hash = exports[id].content_hash
        /\ exports[o].deleted = TRUE
        /\ o # id

\* Export._should_delete_publication
should_delete_publication(id) ==
    ~ \E o \in Ids :
        /\ exports[o].content_hash = exports[id].content_hash
        /\ exports[o].deleted # TRUE
        /\ o # id

\* the rows of the query q of _should_delete_publication
referrers(id) ==
    {o \in Ids :
        /\ exports[o].content_hash = exports[id].content_hash
        /\ exports[o].deleted # TRUE
        /\ o # id}

----------------------------------------------------------------------------
(* Operations *)

\* the export jobs have written their files: p1 and p2 exist (with the same
\* bytes or not), nothing is named by a hash yet
StagedFiles ==
    {f \in [Paths -> Contents \cup {NoFile}] :
        /\ f["p1"] = "a"
        /\ f["p2"] # NoFile
        /\ \A p \in Hashes : f[p] = NoFile}

\* no delete_publication is between its check and its archive call, and no
\* sweep is under way
NoCheck == [pc |-> "idle", go |-> FALSE, refs |-> {}]
Idle == [sweep |-> <<>>, del |-> [id \in 1..MaxExports |-> NoCheck]]

Init ==
    /\ exports = <<>>
    /\ store = {}
    /\ fs \in StagedFiles
    /\ now = 0
    /\ last = Observed("init", 0, "none", NoCall, <<>>)
    /\ workers = Idle

\* Export.create(operation, role_id, label, file_path, expires_after)
Create(role_id, file_path, expires_after) ==
    /\ Len(exports) < MaxExports
    /\ LET id == Len(exports) + 1
           export == [creator_id |-> role_id,
                      expires_at |-> NoTime,
                      deleted |-> FALSE,
                      export_status |-> DEFAULT_STATUS,
                      content_hash |-> Null,
                      created_at |-> now,
                      file_path |-> Unset,
                      staged |-> FALSE]
           expiry == now + (IF expires_after = NoTime \/ expires_after = 0
                            THEN DEFAULT_EXPIRATION ELSE expires_after)
       IN IF file_path # Null /\ fs[file_path] = NoFile
          THEN \* file_path.stat() raises inside set_filepath: nothing is added
               /\ last' = Observed("create", 0, "FileNotFoundError", NoCall, <<>>)
               /\ UNCHANGED exports
          ELSE /\ exports' = Append(exports,
                     [(IF file_path # Null THEN set_filepath(export, file_path)
                       ELSE export) EXCEPT !.expires_at = expiry])
               /\ last' = [Observed("create", id, "none", NoCall, <<>>)
                           EXCEPT !.arg = <<expires_after>>]
    /\ UNCHANGED <<store, fs, now, workers>>

\* Export.set_filepath(file_path)
SetFilepath(id, file_path) ==
    /\ id \in Ids
    /\ IF fs[file_path] = NoFile
       THEN /\ last' = Observed("set_filepath", id, "FileNotFoundError", NoCall, <<>>)
            /\ UNCHANGED exports
       ELSE /\ exports' = [exports EXCEPT ![id] = set_filepath(@, file_path)]
            /\ last' = Observed("set_filepath", id, "none", NoCall, <<>>)
    /\ UNCHANGED <<store, fs, now, workers>>

\* Export.set_status(status)
SetStatus(id, status) ==
    /\ id \in Ids
    /\ exports' = [exports EXCEPT ![id] = set_status(@, status)]
    /\ last' = [Observed("set_status", id, "none", NoCall, <<>>)
                EXCEPT !.arg = <<status>>]
    /\ UNCHANGED <<store, fs, now, workers>>

\* as publish, without the except clause: a store error leaves the status
PublishWithoutHandler(id, storeOk) ==
    /\ id \in Ids
    /\ LET x == exports[id]
           path == x.content_hash
       IN IF x.file_path = Unset
          THEN \* reading self._file_path raises
               /\ last' = Observed("publish", id, "AttributeError", NoCall, <<>>)
               /\ UNCHANGED <<exports, store, fs>>
          ELSE IF ~ Truthy(x.file_path)
          THEN /\ last' = Observed("publish", id, "RuntimeError", NoCall, <<>>)
               /\ UNCHANGED <<exports, store, fs>>
          ELSE IF fs[x.file_path] = NoFile
          THEN \* self._file_path.rename(path) raises, outside the try block
               /\ last' = Observed("publish", id, "FileNotFoundError", NoCall, <<>>)
               /\ UNCHANGED <<exports, store, fs>>
          ELSE /\ fs' = rename(fs, x.file_path, path)
               /\ IF storeOk
                  THEN /\ store' = store \cup {<<namespace(x), path>>}
                       /\ exports' = [exports EXCEPT
                                        ![id] = set_status(@, STATUS_SUCCESSFUL)]
                       /\ last' = Observed("publish", id, "none",
                                           StoreCall("publish", x), <<>>)
                  ELSE /\ UNCHANGED store
                       /\ UNCHANGED exports
                       /\ last' = Observed("publish", id, "StoreError",
                                           StoreCall("publish", x), <<>>)
    /\ UNCHANGED <<now, workers>>

\* Export.publish(); storeOk is the outcome of archive.publish
Publish(id, storeOk) ==
    /\ id \in Ids
    /\ LET x == exports[id]
           path == x.content_hash
       IN IF x.file_path = Unset
          THEN \* reading self._file_path raises
               /\ last' = Observed("publish", id, "AttributeError", NoCall, <<>>)
               /\ UNCHANGED <<exports, store, fs>>
          ELSE IF ~ Truthy(x.file_path)
          THEN /\ last' = Observed("publish", id, "RuntimeError", NoCall, <<>>)
               /\ UNCHANGED <<exports, store, fs>>
          ELSE IF fs[x.file_path] = NoFile
          THEN \* self._file_path.rename(path) raises, outside the try block
               /\ last' = Observed("publish", id, "FileNotFoundError", NoCall, <<>>)
               /\ UNCHANGED <<exports, store, fs>>
          ELSE /\ fs' = rename(fs, x.file_path, path)
               /\ IF storeOk
                  THEN /\ store' = store \cup {<<namespace(x), path>>}
                       /\ exports' = [exports EXCEPT
                                        ![id] = set_status(@, STATUS_SUCCESSFUL)]
                       /\ last' = Observed("publish", id, "none",
                                           StoreCall("publish", x), <<>>)
                  ELSE /\ UNCHANGED store
                       /\ exports' = [exports EXCEPT
                                        ![id] = set_status(@, STATUS_FAILED)]
                       /\ last' = Observed("publish", id, "StoreError",
                                           StoreCall("publish", x), <<>>)
    /\ UNCHANGED <<now, workers>>

\* as delete_publication, with `self.deleted = True` inside the if
DeletePublicationOnlyWhenRemoved(id, storeOk) ==
    /\ id \in Ids
    /\ LET x == exports[id]
       IN IF should_delete_publication(id)
          THEN IF storeOk
               THEN /\ store' = store \ {<<namespace(x), x.content_hash>>}
                    /\ exports' = [exports EXCEPT ![id].deleted = TRUE]
                    /\ last' = Observed("delete_publication", id, "none",
                                        StoreCall("delete", x), <<>>)
               ELSE /\ last' = Observed("delete_publication", id, "StoreError",
                                        StoreCall("delete", x), <<>>)
                    /\ UNCHANGED <<exports, store>>
          ELSE /\ last' = Observed("delete_publication", id, "none", NoCall, <<>>)
               /\ UNCHANGED <<exports, store>>
    /\ UNCHANGED <<fs, now, workers>>

\* as delete_publication, with self.deleted = True moved before the archive
\* call
DeletePublicationFlagFirst(id, storeOk) ==
    /\ id \in Ids
    /\ LET x == exports[id]
       IN /\ exports' = [exports EXCEPT ![id].deleted = TRUE]
          /\ IF should_delete_publication(id)
             THEN IF storeOk
                  THEN /\ store' = store \ {<<namespace(x), x.content_hash>>}
                       /\ last' = Observed("delete_publication", id, "none",
                                           StoreCall("delete", x), <<>>)
                  ELSE /\ last' = Observed("delete_publication", id, "StoreError",
                                           StoreCall("delete", x), <<>>)
                       /\ UNCHANGED store
             ELSE /\ last' = Observed("delete_publication", id, "none", NoCall, <<>>)
                  /\ UNCHANGED store
    /\ UNCHANGED <<fs, now, workers>>

\* as delete_publication, returning right after the archive call
DeletePublicationReturnsEarly(id, storeOk) ==
    /\ id \in Ids
    /\ LET x == exports[id]
       IN IF should_delete_publication(id)
          THEN IF storeOk
               THEN /\ store' = store \ {<<namespace(x), x.content_hash>>}
                    /\ last' = Observed("delete_publication", id, "none",
                                        StoreCall("delete", x), <<>>)
                    /\ UNCHANGED exports
               ELSE /\ last' = Observed("delete_publication", id, "StoreError",
                                        StoreCall("delete", x), <<>>)
                    /\ UNCHANGED <<exports, store>>
          ELSE /\ exports' = [exports EXCEPT ![id].deleted = TRUE]
               /\ last' = Observed("delete_publication", id, "none", NoCall, <<>>)
               /\ UNCHANGED store
    /\ UNCHANGED <<fs, now, workers>>

\* Export.delete_publication(); storeOk is the outcome of
\* archive.delete_publication
DeletePublication(id, storeOk) ==
    /\ id \in Ids
    /\ LET x == exports[id]
       IN IF should_delete_publication(id)
          THEN IF storeOk
               THEN /\ store' = store \ {<<namespace(x), x.content_hash>>}
                    /\ exports' = [exports EXCEPT ![id].deleted = TRUE]
                    /\ last' = Observed("delete_publication", id, "none",
                                        StoreCall("delete", x), <<>>)
               ELSE \* the store error leaves delete_publication uncaught
                    /\ last' = Observed("delete_publication", id, "StoreError",
                                        StoreCall("delete", x), <<>>)
                    /\ UNCHANGED <<exports, store>>
          ELSE /\ exports' = [exports EXCEPT ![id].deleted = TRUE]
               /\ last' = Observed("delete_publication", id, "none", NoCall, <<>>)
               /\ UNCHANGED store
    /\ UNCHANGED <<fs, now, workers>>

\* The record is loaded again from the record store: only the columns are
\* persisted, the transient _file_path is not
Reload(id) ==
    /\ id \in Ids
    /\ exports[id].file_path # Unset
    /\ exports' = [exports EXCEPT ![id].file_path = Unset]
    /\ last' = Observed("reload", id, "none", NoCall, <<>>)
    /\ UNCHANGED <<store, fs, now, workers>>

\* datetime.utcnow() advances
Tick(d) ==
    /\ now + d <= MaxNow
    /\ now' = now + d
    /\ last' = Observed("tick", 0, "none", NoCall, <<>>)
    /\ UNCHANGED <<exports, store, fs, workers>>

----------------------------------------------------------------------------
(* Queries *)

Range(s) == {s[i] : i \in 1..Len(s)}

\* as created_at_desc, ascending
created_at_asc(a, b) == exports[a].created_at <= exports[b].created_at

\* ORDER BY created_at DESC: row a may precede row b
created_at_desc(a, b) == exports[a].created_at >= exports[b].created_at

\* the rows of a query in the order the record store returns them: any
\* order when the query has no ORDER BY, else any order that respects it
Rows(S, ordered) ==
    {s \in [1..Cardinality(S) -> S] :
        /\ \A i, j \in 1..Cardinality(S) : i # j => s[i] # s[j]
        /\ ordered => \A i, j \in 1..Cardinality(S) :
                         i < j => created_at_desc(s[i], s[j])}

\* a boolean column compared with an argument that may be None
Flag(b) == IF b THEN "true" ELSE "false"

\* as get_expired, with a strict comparison
get_expired_strict(deleted) ==
    {id \in Ids :
        /\ exports[id].expires_at # NoTime
        /\ exports[id].expires_at < now
        /\ deleted # Null => Flag(exports[id].deleted) = deleted}

\* Export.get_expired(deleted)
get_expired(deleted) ==
    {id \in Ids :
        /\ exports[id].expires_at # NoTime
        /\ exports[id].expires_at <= now
        /\ deleted # Null => Flag(exports[id].deleted) = deleted}

\* Export.by_id(id, role_id, deleted)
by_id(id, role_id, deleted) ==
    {o \in Ids :
        /\ o = id
        /\ role_id # NoRole => exports[o].creator_id = role_id
        /\ deleted \notin {"true"} => exports[o].deleted = FALSE}

\* the rows Export.by_role_id(role_id, deleted) selects
by_role_id(role_id, deleted) ==
    {o \in Ids :
        /\ exports[o].creator_id = role_id
        /\ deleted \notin {"true"} => exports[o].deleted = FALSE}

GetExpired(deleted) ==
    /\ \E rows \in Rows(get_expired(deleted), FALSE) :
          last' = Returned("get_expired", <<deleted>>, rows)
    /\ UNCHANGED <<exports, store, fs, now, workers>>

\* q.first(): the first row or None
ById(id, role_id, deleted) ==
    /\ \E rows \in Rows(by_id(id, role_id, deleted), FALSE) :
          last' = Returned("by_id", <<id, role_id, deleted>>, rows)
    /\ UNCHANGED <<exports, store, fs, now, workers>>

ByRoleId(role_id, deleted) ==
    /\ \E rows \in Rows(by_role_id(role_id, deleted), TRUE) :
          last' = Returned("by_role_id", <<role_id, deleted>>, rows)
    /\ UNCHANGED <<exports, store, fs, now, workers>>

----------------------------------------------------------------------------
(* The life of exports: creation, staging, publication, deletion *)

Next ==
    \/ \E r \in Roles, p \in Paths \cup {Null} : Create(r, p, NoTime)
    \/ \E id \in Ids, p \in Paths : SetFilepath(id, p)
    \/ \E id \in Ids, s \in StatusArgs : SetStatus(id, s)
    \/ \E id \in Ids, ok \in BOOLEAN : Publish(id, ok)
    \/ \E id \in Ids, ok \in BOOLEAN : DeletePublication(id, ok)
    \/ \E id \in Ids : Reload(id)

Spec == Init /\ [][Next]_vars

----------------------------------------------------------------------------
(* The queries, on any content of the record store *)

\* rows as the table may hold them: expires_at is nullable, any owner, deleted
\* or not, created at or before the present
Rows0 ==
    [creator_id : Roles,
     expires_at : {NoTime, 15, 30},
     deleted : BOOLEAN,
     export_status : {DEFAULT_STATUS},
     content_hash : {Null},
     created_at : {0, 15},
     file_path : {Unset},
     staged : {FALSE}]

InitQ ==
    /\ exports \in UNION {[1..n -> Rows0] : n \in 0..MaxExports}
    \* ids are handed out in the order of creation
    /\ \A i, j \in Ids : i < j => exports[i].created_at <= exports[j].created_at
    /\ store = {}
    /\ fs \in {f \in StagedFiles : f["p2"] = "b"}
    /\ now = 15
    /\ last = Observed("init", 0, "none", NoCall, <<>>)
    /\ workers = Idle

NextQ ==
    \/ \E d \in {"false", "true", Null} : GetExpired(d)
    \/ \E id \in 1..MaxExports, r \in Roles \cup {NoRole}, d \in {"false", "true"} :
         ById(id, r, d)
    \/ \E r \in Roles, d \in {"false", "true"} : ByRoleId(r, d)
    \/ \E d \in TickSteps : Tick(d)

SpecQ == InitQ /\ [][NextQ]_vars

----------------------------------------------------------------------------
(* delete_publication run by concurrent workers: the referrer check and the *)
(* archive call are two steps, and other workers' operations fall between  *)

\* Export.delete_publication up to the result of _should_delete_publication
DeleteCheck(id) ==
    /\ id \in Ids
    /\ workers.del[id].pc = "idle"
    /\ workers' = [workers EXCEPT
                     !.del[id] = [pc |-> "checked",
                                  go |-> should_delete_publication(id),
                                  refs |-> referrers(id)]]
    /\ last' = Observed("delete_check", id, "none", NoCall, <<>>)
    /\ UNCHANGED <<exports, store, fs, now>>

\* the rest of Export.delete_publication: the archive call when the check
\* said so, then deleted = True
DeleteStore(id, storeOk) ==
    /\ id \in Ids
    /\ workers.del[id].pc = "checked"
    /\ LET x == exports[id]
       IN IF workers.del[id].go
          THEN IF storeOk
               THEN /\ store' = store \ {<<namespace(x), x.content_hash>>}
                    /\ exports' = [exports EXCEPT ![id].deleted = TRUE]
                    /\ last' = Observed("delete_publication", id, "none",
                                        StoreCall("delete", x), <<>>)
               ELSE /\ last' = Observed("delete_publication", id, "StoreError",
                                        StoreCall("delete", x), <<>>)
                    /\ UNCHANGED <<exports, store>>
          ELSE /\ exports' = [exports EXCEPT ![id].deleted = TRUE]
               /\ last' = Observed("delete_publication", id, "none", NoCall, <<>>)
               /\ UNCHANGED store
    /\ workers' = [workers EXCEPT !.del[id] = NoCheck]
    /\ UNCHANGED <<fs, now>>

NextRace ==
    \/ \E r \in Roles, p \in StagePaths : Create(r, p, NoTime)
    \/ \E id \in Ids, p \in StagePaths : SetFilepath(id, p)
    \/ \E id \in Ids, ok \in BOOLEAN : Publish(id, ok)
    \/ \E id \in Ids : DeleteCheck(id)
    \/ \E id \in Ids, ok \in BOOLEAN : DeleteStore(id, ok)

SpecRace == Init /\ [][NextRace]_vars

----------------------------------------------------------------------------
(* Atomic operations with a store that does not fail; a file is staged     *)
(* only while the export is still pending                                  *)

NextAtomic ==
    \/ \E r \in Roles, p \in Paths \cup {Null} : Create(r, p, NoTime)
    \/ \E id \in Ids, p \in Paths :
         exports[id].export_status = STATUS_PENDING /\ SetFilepath(id, p)
    \/ \E id \in Ids : Publish(id, TRUE)
    \/ \E id \in Ids : DeletePublication(id, TRUE)
    \/ \E id \in Ids : Reload(id)

SpecAtomic == Init /\ [][NextAtomic]_vars

\* The plain life of an export: created with its file, published while it
\* is not deleted, deleted later; the store does not fail
NextPlain ==
    \/ \E r \in Roles, p \in StagePaths : Create(r, p, NoTime)
    \/ \E id \in Ids : ~ exports[id].deleted /\ Publish(id, TRUE)
    \/ \E id \in Ids : DeletePublication(id, TRUE)

SpecPlain == Init /\ [][NextPlain]_vars

----------------------------------------------------------------------------
(* Expiry: exports created with and without expires_after, a clock, store  *)
(* calls that may fail, and the expiry query                               *)

\* expires_after as passed to create: NoTime when the argument is omitted
Durations == {NoTime, 0, 15}

NextExpiry ==
    \/ \E e \in Durations : Create(1, "p1", e)
    \/ \E id \in Ids : SetFilepath(id, "p2")
    \/ \E id \in Ids : SetStatus(id, STATUS_FAILED)
    \/ \E id \in Ids : Publish(id, TRUE)
    \/ \E id \in Ids, ok \in BOOLEAN : DeletePublication(id, ok)
    \/ \E d \in TickSteps : Tick(d)
    \/ GetExpired("false")

SpecExpiry == Init /\ [][NextExpiry]_vars

----------------------------------------------------------------------------
(* The expiry sweep: get_expired() with its default arguments, then        *)
(* delete_publication() on each row; the store does not fail               *)

\* rows = Export.get_expired()
SweepStart ==
    /\ workers.sweep = <<>>
    /\ \E rows \in Rows(get_expired("false"), FALSE) :
          /\ workers' = [workers EXCEPT !.sweep = rows]
          /\ last' = Returned("get_expired", <<"false">>, rows)
    /\ UNCHANGED <<exports, store, fs, now>>

\* as the sweep's delete_publication, marking the export only when the blob
\* was removed
SweepStepOnlyWhenRemoved ==
    /\ workers.sweep # <<>>
    /\ LET id == Head(workers.sweep)
           x == exports[id]
       IN IF should_delete_publication(id)
          THEN /\ store' = store \ {<<namespace(x), x.content_hash>>}
               /\ exports' = [exports EXCEPT ![id].deleted = TRUE]
               /\ last' = Observed("delete_publication", id, "none",
                                   StoreCall("delete", x), <<>>)
          ELSE /\ last' = Observed("delete_publication", id, "none", NoCall, <<>>)
               /\ UNCHANGED <<exports, store>>
    /\ workers' = [workers EXCEPT !.sweep = Tail(workers.sweep)]
    /\ UNCHANGED <<fs, now>>

\* delete_publication() on the next row of the sweep
SweepStep ==
    /\ workers.sweep # <<>>
    /\ LET id == Head(workers.sweep)
           x == exports[id]
       IN IF should_delete_publication(id)
          THEN /\ store' = store \ {<<namespace(x), x.content_hash>>}
               /\ exports' = [exports EXCEPT ![id].deleted = TRUE]
               /\ last' = Observed("delete_publication", id, "none",
                                   StoreCall("delete", x), <<>>)
          ELSE /\ exports' = [exports EXCEPT ![id].deleted = TRUE]
               /\ last' = Observed("delete_publication", id, "none", NoCall, <<>>)
               /\ UNCHANGED store
    /\ workers' = [workers EXCEPT !.sweep = Tail(workers.sweep)]
    /\ UNCHANGED <<fs, now>>

NextSweep ==
    \/ \E r \in Roles, p \in StagePaths, e \in Durations : Create(r, p, e)
    \/ \E id \in Ids : Publish(id, TRUE)
    \/ \E d \in TickSteps : Tick(d)
    \/ SweepStart
    \/ SweepStep

\* the sweep job keeps running: a pass that can start does start, and a
\* started pass goes on to its next row
SpecSweep ==
    Init /\ [][NextSweep]_vars /\ WF_vars(SweepStart) /\ WF_vars(SweepStep)

----------------------------------------------------------------------------
(* Properties *)

Key(id) == <<namespace(exports[id]), exports[id].content_hash>>

\* another record with the same content hash that is not deleted
LiveReferrer(id) ==
    \E o \in Ids \ {id} :
        exports[o].content_hash = exports[id].content_hash /\ ~ exports[o].deleted

\* two successfully published exports of one creator with the same content
SharedBlob(e1, e2) ==
    /\ e1 # e2
    /\ exports[e1].creator_id = exports[e2].creator_id
    /\ exports[e1].content_hash # Null
    /\ exports[e1].content_hash = exports[e2].content_hash
    /\ exports[e1].export_status = STATUS_SUCCESSFUL
    /\ exports[e2].export_status = STATUS_SUCCESSFUL
    /\ Key(e1) \in store

\* C1: when two published exports of one creator share a content hash, a
\* delete_publication that returns on one of them while the other is not
\* deleted leaves the blob in the store; once the other is deleted and no
\* live referrer is left, a delete_publication that returns removes the blob.
C1_SharedBlobKeptUntilLastDelete ==
    [][\A e1, e2 \in Ids :
         (/\ SharedBlob(e1, e2)
          /\ last'.op = "delete_publication"
          /\ last'.id = e1
          /\ last'.err = "none")
         => IF ~ exports[e2].deleted
            THEN Key(e1) \in store'
            ELSE (~ LiveReferrer(e1) => Key(e1) \notin store')]_vars

C1_Witness ==
    /\ last.op = "delete_publication"
    /\ last.err = "none"
    /\ last.call.kind = "delete"
    /\ \E e1 \in Ids \ {last.id} :
        /\ exports[e1].creator_id = exports[last.id].creator_id
        /\ exports[e1].content_hash = exports[last.id].content_hash
        /\ exports[e1].content_hash # Null
        /\ exports[e1].export_status = STATUS_SUCCESSFUL
        /\ exports[last.id].export_status = STATUS_SUCCESSFUL
        /\ exports[e1].deleted
        /\ exports[last.id].deleted
        /\ fs[exports[e1].content_hash] # NoFile
        /\ Key(e1) \notin store

\* C2: export_status changes only from pending to successful or from pending
\* to failed.
C2_StatusOnlyLeavesPending ==
    [][\A id \in Ids :
         exports'[id].export_status # exports[id].export_status
         => /\ exports[id].export_status = STATUS_PENDING
            /\ exports'[id].export_status \in {STATUS_SUCCESSFUL, STATUS_FAILED}]_vars

\* C3: a publish() on an export with a staged file that raises, at whichever
\* step, leaves export_status = failed.
C3_RaisedPublishShowsFailed ==
    (/\ last.op = "publish"
     /\ last.err # "none"
     /\ exports[last.id].file_path # Unset)
    => exports[last.id].export_status = STATUS_FAILED

\* C4: publish() on an export with no staged file raises the invalid-state
\* error (the RuntimeError of publish), calls no store operation and changes
\* nothing of the export.
C4_UnstagedPublishInvalidState ==
    [][(last'.op = "publish" /\ exports[last'.id].file_path = Unset)
       => /\ last'.err = "RuntimeError"
          /\ last'.call.kind = "none"
          /\ exports' = exports
          /\ store' = store]_vars

\* C5 as stated: after any delete_publication() call the export is deleted.
C5_DeletedAfterInvoked ==
    last.op = "delete_publication" => exports[last.id].deleted

\* C5: after a delete_publication() that returns, the export is deleted,
\* whether the store was left alone (live referrer) or the blob was removed;
\* a delete_publication() that raises (the store delete failed) changes no
\* record.
C5_DeletedAfterReturn ==
    /\ []((last.op = "delete_publication" /\ last.err = "none")
            => exports[last.id].deleted)
    /\ [][(last'.op = "delete_publication" /\ last'.err # "none")
          => (exports' = exports /\ last'.call.kind = "delete")]_vars

C5_Witness ==
    /\ last.op = "delete_publication"
    /\ last.err = "none"
    /\ last.call.kind = "none"
    /\ exports[last.id].deleted
    /\ exports[last.id].export_status = STATUS_SUCCESSFUL
    /\ Key(last.id) \in store

\* C6: get_expired() returns exactly the exports with a non-null
\* expires_at <= now that are not deleted; get_expired(deleted=None) returns
\* the deleted ones as well.
C6_GetExpiredExact ==
    last.op = "get_expired"
    => LET expired == {id \in Ids : /\ exports[id].expires_at # NoTime
                                    /\ exports[id].expires_at <= now}
       IN /\ Len(last.ret) = Cardinality(Range(last.ret))
          /\ last.arg = <<"false">>
               => Range(last.ret) = {id \in expired : ~ exports[id].deleted}
          /\ last.arg = <<Null>> => Range(last.ret) = expired

C6_Witness ==
    /\ last.op = "get_expired"
    /\ last.arg = <<"false">>
    /\ Len(last.ret) = 1
    /\ \E id \in Ids : exports[id].expires_at = now /\ id \in Range(last.ret)
    /\ \E id \in Ids : exports[id].expires_at = NoTime

\* C7: content_hash is non-null exactly on the exports on which set_filepath
\* has completed, and only set_filepath changes the content_hash of an export.
C7_ContentHashIffStaged ==
    /\ [](\A id \in Ids : exports[id].content_hash # Null <=> exports[id].staged)
    /\ [][\A id \in Ids :
            exports'[id].content_hash # exports[id].content_hash
            => last'.op = "set_filepath" /\ last'.id = id]_vars

C7_Witness ==
    \E e1, e2 \in Ids :
        /\ exports[e1].staged
        /\ exports[e1].content_hash # Null
        /\ exports[e1].export_status = STATUS_SUCCESSFUL
        /\ exports[e1].deleted
        /\ ~ exports[e2].staged
        /\ exports[e2].content_hash = Null
        /\ exports[e2].deleted

\* C8: export_status is always pending, successful or failed; a created
\* export is pending; set_status with an unknown value changes nothing and
\* raises nothing.
C8_StatusRecognised ==
    /\ [](/\ \A id \in Ids : exports[id].export_status \in EXPORT_STATUS
          /\ (last.op = "create" /\ last.err = "none")
               => exports[last.id].export_status = STATUS_PENDING)
    /\ [][(last'.op = "set_status" /\ last'.arg[1] \notin EXPORT_STATUS)
          => exports' = exports /\ last'.err = "none"]_vars

C8_Witness ==
    /\ last.op = "set_status"
    /\ last.arg = <<"bogus">>
    /\ exports[last.id].export_status = STATUS_SUCCESSFUL

\* C9: no operation removes a record from the record store, and no
\* operation sets deleted back to false.
C9_SoftDeletePermanent ==
    [][/\ Len(exports') >= Len(exports)
       /\ \A id \in Ids : exports[id].deleted => exports'[id].deleted]_vars

C9_Witness ==
    /\ last.op \in {"set_status", "publish", "set_filepath", "reload"}
    /\ last.err = "none"
    /\ exports[last.id].deleted
    /\ Len(exports) = MaxExports

\* C10: by_role_id(R) returns exactly the exports of creator R that are not
\* deleted, newest first; by_id(id, R) returns the export when its creator is
\* R and it is not deleted, and nothing otherwise.
C10_LookupsScoped ==
    /\ (last.op = "by_role_id" /\ last.arg[2] = "false")
       => /\ Range(last.ret) = {id \in Ids : /\ exports[id].creator_id = last.arg[1]
                                            /\ ~ exports[id].deleted}
          /\ Len(last.ret) = Cardinality(Range(last.ret))
          /\ \A i, j \in 1..Len(last.ret) :
               i < j => exports[last.ret[i]].created_at >= exports[last.ret[j]].created_at
    /\ (last.op = "by_id" /\ last.arg[2] \in Roles /\ last.arg[3] = "false")
       => Range(last.ret) =
            {id \in Ids : /\ id = last.arg[1]
                          /\ exports[id].creator_id = last.arg[2]
                          /\ ~ exports[id].deleted}

C10_Witness ==
    /\ last.op = "by_role_id"
    /\ last.arg[2] = "false"
    /\ Len(last.ret) = 2
    /\ exports[last.ret[1]].created_at > exports[last.ret[2]].created_at

\* C11: with the check and the archive call of delete_publication as two
\* steps, a state is reachable (C11_Witness) where a successful, not deleted
\* export has no blob at its key.  The blob of such an export disappears
\* only in the archive step of a delete_publication on another export of the
\* same key whose check, made earlier, did not see it as a referrer.
C11_BlobLostOnlyToLaterReferrer ==
    [][\A v \in Ids :
         (/\ ~ exports[v].deleted
          /\ exports[v].export_status = STATUS_SUCCESSFUL
          /\ Key(v) \in store
          /\ Key(v) \notin store'
          /\ ~ exports'[v].deleted)
         => /\ last'.op = "delete_publication"
            /\ last'.id # v
            /\ workers.del[last'.id].pc = "checked"
            /\ v \notin workers.del[last'.id].refs
            /\ Key(last'.id) = Key(v)]_vars

C11_Witness ==
    /\ last.op = "delete_publication"
    /\ last.err = "none"
    /\ last.call.kind = "delete"
    /\ exports[last.id].deleted
    /\ exports[last.id].export_status = STATUS_SUCCESSFUL
    /\ \E v \in Ids \ {last.id} :
        /\ ~ exports[v].deleted
        /\ exports[v].export_status = STATUS_SUCCESSFUL
        /\ Key(v) = <<last.call.ns, last.call.hash>>
        /\ Key(v) \notin store

\* C12: delete_publication on E calls the store's delete, for the key
\* (namespace of E, content_hash of E), exactly when no other record of any
\* creator has the same content_hash and is not deleted; when there is one
\* the store is not called and not changed.
C12_StoreDeleteIffNoLiveReferrer ==
    [][last'.op = "delete_publication"
       => /\ last'.call.kind = "delete" <=> ~ LiveReferrer(last'.id)
          /\ last'.call.kind = "delete"
               => /\ last'.call.ns = <<"role", exports[last'.id].creator_id>>
                  /\ last'.call.hash = exports[last'.id].content_hash
          /\ LiveReferrer(last'.id)
               => last'.call.kind = "none" /\ store' = store]_vars

C12_Witness ==
    /\ last.op = "delete_publication"
    /\ last.err = "none"
    /\ last.call.kind = "none"
    /\ Key(last.id) \in store
    /\ \E o \in Ids :
        /\ exports[o].creator_id # exports[last.id].creator_id
        /\ exports[o].content_hash = exports[last.id].content_hash
        /\ ~ exports[o].deleted

\* C13: a publish() whose store call fails raises the store's error and
\* leaves export_status = failed; one whose store call succeeds raises
\* nothing and leaves export_status = successful, with the blob in the store.
C13_StoreOutcomeDecidesStatus ==
    (last.op = "publish" /\ last.call.kind = "publish")
    => \/ /\ last.err = "StoreError"
          /\ exports[last.id].export_status = STATUS_FAILED
       \/ /\ last.err = "none"
          /\ exports[last.id].export_status = STATUS_SUCCESSFUL
          /\ <<last.call.ns, last.call.hash>> \in store

C13_Witness ==
    /\ last.op = "publish"
    /\ last.call.kind = "publish"
    /\ last.err = "StoreError"
    /\ exports[last.id].export_status = STATUS_FAILED
    /\ Key(last.id) \notin store

\* C15: publish and delete_publication on an export call the store with the
\* key (role:<creator_id>, content_hash) of that export, change no other key
\* of the store, and no other operation changes the store.
C15_StoreCallsInOwnNamespace ==
    [][IF last'.op \in {"publish", "delete_publication"}
       THEN LET own == <<<<"role", exports[last'.id].creator_id>>,
                         exports[last'.id].content_hash>>
            IN /\ last'.call.kind # "none"
                    => <<last'.call.ns, last'.call.hash>> = own
               /\ \A k \in (store \ store') \cup (store' \ store) : k = own
       ELSE store' = store]_vars

C15_Witness ==
    /\ last.op = "delete_publication"
    /\ last.call.kind = "delete"
    /\ last.err = "none"
    /\ Key(last.id) \notin store
    /\ \E k \in store : k[1] # last.call.ns /\ k[2] = last.call.hash

\* C19: the store's delete is called only for a key that holds a blob.
C19_StoreDeleteOnlyForStoredBlob ==
    [][(last'.op = "delete_publication" /\ last'.call.kind = "delete")
       => <<last'.call.ns, last'.call.hash>> \in store]_vars

\* C17: with atomic operations, files staged only before publish and a store
\* that does not fail, every successful export that is not deleted has its
\* blob in the store at (role:<creator_id>, content_hash).
C17_LiveSuccessfulHasBlob ==
    \A id \in Ids :
        (exports[id].export_status = STATUS_SUCCESSFUL /\ ~ exports[id].deleted)
        => <<<<"role", exports[id].creator_id>>, exports[id].content_hash>> \in store

C17_Witness ==
    /\ last.op = "delete_publication"
    /\ last.call.kind = "none"
    /\ exports[last.id].deleted
    /\ exports[last.id].export_status = STATUS_SUCCESSFUL
    /\ \E v \in Ids \ {last.id} :
        /\ Key(v) = Key(last.id)
        /\ exports[v].export_status = STATUS_SUCCESSFUL
        /\ ~ exports[v].deleted
        /\ Key(v) \in store

\* C18: once every export with content hash h is deleted, one of them having
\* been published, the store holds no blob with hash h in any namespace.
C18_NoBlobLeftAfterLastDelete ==
    \A h \in Hashes :
        (/\ \E id \in Ids : /\ exports[id].content_hash = h
                            /\ exports[id].export_status = STATUS_SUCCESSFUL
         /\ \A id \in Ids : exports[id].content_hash = h => exports[id].deleted)
        => \A r \in Roles : <<<<"role", r>>, h>> \notin store

\* C14: a delete_publication() that finds no other live referrer and whose
\* store delete fails raises the store error and changes no record, so the
\* deleted flag stays as it was (false for a live export) and an expired
\* export is still among the rows of get_expired(); a delete_publication()
\* that made the store call and did not raise has removed the blob; and
\* every get_expired() returns each expired export that is not deleted.
C14_FailedStoreDeleteLeavesExportExpired ==
    /\ [][(last'.op = "delete_publication" /\ last'.err = "StoreError")
            => /\ should_delete_publication(last'.id)
               /\ last'.call.kind = "delete"
               /\ exports' = exports
               /\ store' = store
               /\ ~ exports[last'.id].deleted => ~ exports'[last'.id].deleted
               /\ last'.id \in get_expired("false")
                    => last'.id \in get_expired("false")']_vars
    /\ [][(/\ last'.op = "delete_publication"
           /\ last'.call.kind = "delete"
           /\ last'.err = "none")
            => <<last'.call.ns, last'.call.hash>> \notin store']_vars
    /\ [][(last'.op = "get_expired" /\ last'.arg = <<"false">>)
            => \A id \in Ids :
                  (/\ ~ exports[id].deleted
                   /\ exports[id].expires_at # NoTime
                   /\ exports[id].expires_at <= now)
                  => id \in Range(last'.ret)]_vars

C14_Witness ==
    /\ last.op = "delete_publication"
    /\ last.err = "StoreError"
    /\ ~ exports[last.id].deleted
    /\ exports[last.id].expires_at <= now
    /\ exports[last.id].export_status = STATUS_SUCCESSFUL
    /\ last.id \in get_expired("false")

\* C16: create() sets expires_at = creation time + expires_after for every
\* supplied expires_after >= 0 and creation time + 30 days when none is
\* supplied; expires_at is never null and no later operation changes it.
C16_ExpiresAtFromSuppliedDuration ==
    /\ [][(last'.op = "create" /\ last'.err = "none")
            => exports'[last'.id].expires_at =
                 now + (IF last'.arg[1] = NoTime
                        THEN DEFAULT_EXPIRATION ELSE last'.arg[1])]_vars
    /\ [](\A id \in Ids : exports[id].expires_at # NoTime)
    /\ [][\A id \in Ids : exports'[id].expires_at = exports[id].expires_at]_vars

\* C20: when the sweep keeps running and store deletes succeed, every export
\* whose expires_at has passed eventually has deleted = true, from then on
\* stays deleted and is never among the rows of get_expired(), and
\* eventually get_expired() has no row that was expired before.
C20_SweepDeletesEveryExpired ==
    /\ \A id \in 1..MaxExports :
          (id \in Ids /\ exports[id].expires_at <= now)
             ~> (id \in Ids /\ exports[id].deleted)
    /\ \A id \in 1..MaxExports :
          (id \in get_expired("false")) ~> [](id \notin get_expired("false"))
    /\ [][\A id \in Ids :
             exports[id].deleted
             => (exports'[id].deleted /\ id \notin get_expired("false")')]_vars
    /\ [][last'.op = "get_expired"
            => \A id \in Ids :
                  exports[id].deleted => id \notin Range(last'.ret)]_vars

C20_Witness ==
    /\ last.op = "delete_publication"
    /\ workers.sweep = <<>>
    /\ exports[last.id].deleted
    /\ exports[last.id].expires_at <= now
    /\ exports[last.id].export_status = STATUS_SUCCESSFUL
    /\ get_expired(Null) # {}
    /\ get_expired("false") = {}

====
